---- MODULE Spec2Model ----
(***************************************************************************)
(* The War Room pipeline runner, runPipeline of                            *)
(* packages/shared/src/lab/pipeline-runner.ts, as a state machine.         *)
(*                                                                         *)
(* JavaScript runs one task at a time: code between two awaits is atomic.  *)
(* Every action below is one such run-to-suspension block of runPipeline   *)
(* (or of one persona closure), with its statements applied in source      *)
(* order to a record m of the runner's state.  The environment acts only   *)
(* at suspension points: an agent's stream settles, or the caller's        *)
(* AbortSignal fires.                                                      *)
(*                                                                         *)
(* For runPipeline, runAgentWithStreaming is represented by the            *)
(* HeadlessResult it returns or the exception it throws.  One call of      *)
(* runAgentWithStreaming is modelled on its own (specification SpecStream):*)
(* its stream events, its watchdog timer and the clock they read.          *)
(*                                                                         *)
(* Not modelled: the timestamps of the pipeline's records, labels, prompt  *)
(* texts.                                                                  *)
(***************************************************************************)
EXTENDS Integers, Sequences, FiniteSets, TLC

\* ---------------------------------------------------------------- bounds
\* pipeline.maxIterations is drawn from (0 - 1) .. MaxIterBound
MaxIterBound == 1
\* savePipeline calls that may throw in one run (specification SpecFaults)
MaxFaults == 2

\* stream events delivered to one call of runAgentWithStreaming
MaxStreamEvents == 2
\* watchdog ticks of one call
MaxTicks == 42
\* the clock is read every ClockStepMs milliseconds between two ticks
ClockStepMs == 1500
\* and also every FineStepMs milliseconds during the first FineClockMs of a call
FineStepMs == 100
FineClockMs == 300

\* ------------------------------------------------------------- constants
\* personaId of the build run: managerPersona.id, 'manager'
ManagerId == 0

\* config.personas: the ids of the personas, in list order
PersonaIds == {1, 2}
NumPersonas == Cardinality(PersonaIds)

\* An optional value: <<>> is undefined, <<v>> is v.
None == <<>>
Some(v) == <<v>>
IsSome(o) == Len(o) > 0
Get(o) == o[1]

\* --------------------------------------------------------------- texts
\* A text is a sequence of words; the empty sequence is the empty string.
EmptyText == <<>>
PassText == <<"Rating:", "PASS">>
MajorText == <<"Rating:", "Major_Issues">>

\* String.prototype.toUpperCase, word by word
UpperWord(w) ==
    CASE w = "Rating:" -> "RATING:"
      [] w = "Major_Issues" -> "MAJOR_ISSUES"
      [] w = "major_issues" -> "MAJOR_ISSUES"
      [] OTHER -> w

ToUpperCase(t) == [i \in 1..Len(t) |-> UpperWord(t[i])]

\* String.prototype.includes for a one-word needle
Includes(t, w) == \E i \in 1..Len(t) : t[i] = w

\* ------------------------------------------------- results of one agent
\* What runAgentWithStreaming hands back to its caller: a HeadlessResult
\* (the stream's complete event, or the fallback of lines 398-401), or an
\* exception thrown by the stream.
\* result.usage: undefined, or the tokens and cost the agent reports
NoUsage == None
Usage1 == Some([inputTokens |-> 1, outputTokens |-> 2, costUsd |-> 1])

ResultOk(text, usage) == [kind |-> "result", success |-> TRUE, response |-> text, usage |-> usage, error |-> None]
ResultFail(msg) == [kind |-> "result", success |-> FALSE, response |-> EmptyText, usage |-> NoUsage, error |-> msg]
Thrown(msg) == [kind |-> "throw", success |-> FALSE, response |-> EmptyText, usage |-> NoUsage, error |-> Some(msg)]

NoCompletionMsg == "No completion event received"
UnresponsiveMsg == "Agent was unresponsive and was aborted"

\* The brief of a think run and the report of a build run
BriefText == <<"brief">>

\* an unsuccessful result that still carries the text the agent wrote
ResultFailWith(text) == [ResultFail(None) EXCEPT !.response = text]

\* What an agent of a phase of the given type may hand back.  A review is
\* rated; a brief or a build report carries no rating.
Outcomes(phaseType) ==
    IF phaseType = "review"
    THEN { ResultOk(PassText, Usage1),
           ResultOk(MajorText, NoUsage),
           ResultFail(None),
           ResultFailWith(MajorText),
           Thrown("stream error") }
    ELSE IF phaseType = "think"
    THEN { ResultOk(BriefText, Usage1),
           ResultFail(None),
           Thrown("stream error") }
    ELSE { ResultOk(BriefText, Usage1),
           ResultOk(EmptyText, Usage1),
           ResultFail(None),
           ResultFail(Some(NoCompletionMsg)),
           Thrown("stream error") }

\* ------------------------------------------------------- the progress log
\* The streaming log is a JavaScript string.  Its length, its paragraph breaks
\* ('\n\n') and its slices are what the code computes with, so a string is
\* modelled as its runs of characters: a sequence of [nl, n], n >= 1 line feeds
\* (nl) or n other characters, no two neighbours of the same kind.
EmptyLog == <<>>
Chars(n) == IF n = 0 THEN <<>> ELSE <<[nl |-> FALSE, n |-> n]>>
LineFeeds(n) == IF n = 0 THEN <<>> ELSE <<[nl |-> TRUE, n |-> n]>>

\* a + b
Concat(a, b) ==
    IF a = <<>> THEN b
    ELSE IF b = <<>> THEN a
    ELSE IF a[Len(a)].nl = b[1].nl
    THEN SubSeq(a, 1, Len(a) - 1) \o <<[nl |-> b[1].nl, n |-> a[Len(a)].n + b[1].n]>> \o Tail(b)
    ELSE a \o b

\* s.length
RECURSIVE Length(_)
Length(t) == IF t = <<>> THEN 0 ELSE t[1].n + Length(Tail(t))

\* s.slice(k), 0 <= k
RECURSIVE Slice(_, _)
Slice(t, k) ==
    IF k = 0 \/ t = <<>> THEN t
    ELSE IF k >= t[1].n THEN Slice(Tail(t), k - t[1].n)
    ELSE <<[nl |-> t[1].nl, n |-> t[1].n - k]>> \o Tail(t)

\* s.indexOf('\n\n', from) where the first character of t is at index at:
\* the least index >= from of two line feeds in a row, or -1
RECURSIVE IndexOfBreak(_, _, _)
IndexOfBreak(t, from, at) ==
    IF t = <<>> THEN 0 - 1
    ELSE LET first == IF from > at THEN from ELSE at
         IN IF t[1].nl /\ first + 1 <= at + t[1].n - 1 THEN first
            ELSE IndexOfBreak(Tail(t), from, at + t[1].n)

\* the number of decimal digits of n >= 0, the length of `${n}`
RECURSIVE Digits(_)
Digits(n) == IF n < 10 THEN 1 ELSE 1 + Digits(n \div 10)

\* lines 280-282 and 334
THROTTLE_MS == 200
MAX_LOG_LENGTH == 4000
ABORT_TIMEOUT_MS == 120000
WATCHDOG_MS == 3000

\* ------------------------------------------------------------------ state
VARIABLES
    pipeline,            \* the in-memory LabPipeline object (config.pipeline)
    stored,              \* the pipeline's JSON document on disk
    events,              \* what onEvent has received, in emission order
    signalAborted,       \* signal.aborted
    activeRunners,       \* the Set<HeadlessRunner>, by the id of the run each serves
    abortLog,            \* runner.abort() calls, in call order
    totalCostUsd,        \* the closure variable of line 469
    totalTokens,         \* the closure variable of line 470
    tasks,               \* per persona: the state of its closure in the current parallel phase
    buildRun,            \* the build run awaited at line 693
    iteration,           \* the loop variable of line 646
    successfulBriefs,    \* line 620
    lastReviewFeedback,  \* line 644
    buildInputs,         \* what each build prompt was built from, in build order
    nextId,              \* the next randomUUID()
    pc,                  \* where runPipeline is suspended
    cancelPoint,         \* where runPipeline was when the signal fired ("none": not fired)
    promise,             \* the promise runPipeline returned
    faultsLeft,          \* savePipeline calls that may still throw
    statusLog            \* the values pipeline.status has held, in order

\* one call of runAgentWithStreaming (lines 263-402)
VARIABLES
    streamingLog,        \* line 271
    activeTool,          \* line 272
    toolCallCount,       \* line 273
    lastEmitTime,        \* line 274
    lastEventTime,       \* line 275
    hasContent,          \* line 276
    aborted,             \* line 277
    now,                 \* Date.now()
    nextTick,            \* when the setInterval callback of lines 311-334 is next due
    stream,              \* "open", or how the call ended: "returned" or "thrown"
    result,              \* the HeadlessResult the call returned
    watchdogAborts,      \* runner.abort() calls made by the watchdog
    lastProgress,        \* the last agent_progress event emitted
    progressCount,       \* agent_progress events emitted so far
    watchdogInterval,    \* the interval timer of line 311: "set" or "cleared"
    eventType,           \* event.type of the loop variable of line 339 ("none" before the first)
    delivered            \* stream events delivered so far

runnerVars == <<pipeline, stored, events, signalAborted, activeRunners, abortLog,
                totalCostUsd, totalTokens, tasks, buildRun, iteration, successfulBriefs,
                lastReviewFeedback, buildInputs, nextId, pc, cancelPoint, promise,
                faultsLeft, statusLog>>

streamVars == <<streamingLog, activeTool, toolCallCount, lastEmitTime, lastEventTime,
                hasContent, aborted, now, nextTick, stream, result, watchdogAborts,
                lastProgress, progressCount, watchdogInterval, eventType, delivered>>

vars == <<runnerVars, streamVars>>

\* line 278: startTime = Date.now(), some time after 1970
StartTime == 1000000

\* lines 271-278 and 311: the locals of a call that has just started
StreamInit ==
    /\ streamingLog = EmptyLog
    /\ activeTool = None
    /\ toolCallCount = 0
    /\ lastEmitTime = 0
    /\ lastEventTime = StartTime
    /\ hasContent = FALSE
    /\ aborted = FALSE
    /\ now = StartTime
    /\ nextTick = StartTime + WATCHDOG_MS
    /\ stream = "open"
    /\ result = None
    /\ watchdogAborts = 0
    /\ lastProgress = None
    /\ progressCount = 0
    /\ watchdogInterval = "set"
    /\ eventType = "none"
    /\ delivered = 0

\* createPipeline: the record a run starts from
NewPipeline(maxIterations) ==
    [status |-> "pending", phases |-> <<>>, iteration |-> 0,
     maxIterations |-> maxIterations, totalCostUsd |-> None, totalTokens |-> None,
     completedAt |-> FALSE]

MaxIterationsValues == (0 - 1)..MaxIterBound

IdleTasks == [i \in PersonaIds |-> [state |-> "idle", phase |-> 0, id |-> 0]]

InitWith(faults) ==
    /\ \E mi \in MaxIterationsValues :
          /\ pipeline = NewPipeline(mi)
          /\ stored = NewPipeline(mi)
    /\ events = <<>>
    /\ signalAborted = FALSE
    /\ activeRunners = {}
    /\ abortLog = <<>>
    /\ totalCostUsd = 0
    /\ totalTokens = 0
    /\ tasks = IdleTasks
    /\ buildRun = [phase |-> 0, id |-> 0]
    /\ iteration = 0
    /\ successfulBriefs = <<>>
    /\ lastReviewFeedback = <<>>
    /\ buildInputs = <<>>
    /\ nextId = 1
    /\ pc = "start"
    /\ cancelPoint = "none"
    /\ promise = "none"
    /\ faultsLeft = faults
    /\ statusLog = <<"pending">>
    /\ StreamInit

Init == InitWith(0)

\* ------------------------------------------------- the runner's state, as a value
\* plan: which savePipeline calls of this block throw (by their order in the block);
\* exc: the exception in flight; returned: runPipeline has executed a return.
Machine(plan) ==
    [pipeline |-> pipeline, stored |-> stored, events |-> events,
     activeRunners |-> activeRunners, abortLog |-> abortLog,
     totalCostUsd |-> totalCostUsd, totalTokens |-> totalTokens,
     tasks |-> tasks, buildRun |-> buildRun, iteration |-> iteration,
     successfulBriefs |-> successfulBriefs, lastReviewFeedback |-> lastReviewFeedback,
     buildInputs |-> buildInputs, nextId |-> nextId, pc |-> pc,
     faultsLeft |-> faultsLeft, statusLog |-> statusLog,
     plan |-> plan, saveNo |-> 0, exc |-> None, returned |-> FALSE]

Live(m) == m.exc = None /\ ~m.returned

\* JSON.stringify then JSON.parse of a pipeline: every field of the model's
\* pipeline is a number, a string, a boolean or an array of such records, and an
\* undefined field (None) is dropped on writing and undefined again on reading.
JsonRoundTrip(p) == p

\* savePipeline: the whole document is overwritten, or writeFileSync throws
SavePipeline(m) ==
    IF (m.saveNo + 1) \in m.plan
    THEN [m EXCEPT !.saveNo = @ + 1, !.faultsLeft = @ - 1, !.exc = Some("storage write failed")]
    ELSE [m EXCEPT !.saveNo = @ + 1, !.stored = JsonRoundTrip(m.pipeline)]

\* Object.assign(pipeline, updates)
Assign(p, updates) == [f \in DOMAIN p |-> IF f \in DOMAIN updates THEN updates[f] ELSE p[f]]

NoUpdates == [f \in {} |-> 0]

UpdatePipeline(m, updates) ==
    IF ~Live(m) THEN m
    ELSE SavePipeline([m EXCEPT !.pipeline = Assign(@, updates),
                                !.statusLog = IF "status" \in DOMAIN updates
                                              THEN Append(@, updates.status) ELSE @])

\* What storage holds, at the time an event is emitted, about the thing the
\* event reports (kept with the event; not part of the wire shape).
StoredPhaseStatus(m, phaseIndex) ==
    IF phaseIndex + 1 \in DOMAIN m.stored.phases
    THEN m.stored.phases[phaseIndex + 1].status ELSE "absent"

StoredRunStatus(m, phaseIndex, runId) ==
    IF phaseIndex + 1 \in DOMAIN m.stored.phases
    THEN LET ag == m.stored.phases[phaseIndex + 1].agents
             hit == {k \in DOMAIN ag : ag[k].id = runId}
         IN IF hit = {} THEN "absent" ELSE ag[CHOOSE k \in hit : TRUE].status
    ELSE "absent"

\* emit = onEvent || (() => {}).  The info of a pipeline event is the list of the
\* parts its message (or status) is made of.
Emit(m, e) ==
    IF ~Live(m) THEN m
    ELSE [m EXCEPT !.events = Append(@, e)]

PipelineEvent(m, type, info) ==
    [type |-> type, info |-> info, stored |-> m.stored.status]

\* a phase event that carries the phase's 1-based position
PhaseEventOneBased(m, type, phaseIndex, phaseType) ==
    [type |-> type, phaseId |-> m.pipeline.phases[phaseIndex + 1].id,
     phaseIndex |-> phaseIndex + 1, phaseType |-> phaseType,
     stored |-> StoredPhaseStatus(m, phaseIndex)]

PhaseEvent(m, type, phaseIndex, phaseType) ==
    [type |-> type, phaseId |-> m.pipeline.phases[phaseIndex + 1].id,
     phaseIndex |-> phaseIndex, phaseType |-> phaseType,
     stored |-> StoredPhaseStatus(m, phaseIndex)]

AgentEvent(m, type, phaseIndex, runId, personaId, info) ==
    [type |-> type, phaseIndex |-> phaseIndex, agentRunId |-> runId,
     personaId |-> personaId, info |-> info,
     stored |-> StoredRunStatus(m, phaseIndex, runId)]

\* createAgentRun
CreateAgentRun(id, personaId) ==
    [id |-> id, personaId |-> personaId, status |-> "running",
     output |-> None, tokenUsage |-> NoUsage, error |-> None]

\* createPhase
CreatePhase(id, type) ==
    [id |-> id, type |-> type, status |-> "running", agents |-> <<>>]

\* ------------------------------------------------- the renderer's reducer
\* PipelineView.tsx 515-537: the phase_started case
ApplyPhaseStarted(p, e) ==
    LET exists == \E k \in DOMAIN p.phases : p.phases[k].id = e.phaseId
        phases == IF exists THEN p.phases
                  ELSE Append(p.phases, [id |-> e.phaseId, type |-> e.phaseType,
                                         status |-> "running", agents |-> <<>>])
        status == CASE e.phaseType = "think" -> "thinking"
                    [] e.phaseType = "build" -> "building"
                    [] e.phaseType = "review" -> "reviewing"
                    [] e.phaseType = "iterate" -> "iterating"
                    [] e.phaseType = "synthesize" -> "synthesizing"
                    [] OTHER -> p.status
    IN [p EXCEPT !.phases = phases, !.status = status]

\* PipelineView.tsx 539-561: the agent_started case
ApplyAgentStarted(p, e) ==
    IF e.phaseIndex + 1 \notin DOMAIN p.phases THEN p
    ELSE LET phase == p.phases[e.phaseIndex + 1]
             agentExists == \E j \in DOMAIN phase.agents : phase.agents[j].id = e.agentRunId
         IN IF agentExists THEN p
            ELSE [p EXCEPT !.phases[e.phaseIndex + 1].agents =
                               Append(@, [id |-> e.agentRunId, personaId |-> e.personaId,
                                          status |-> "running"])]

\* PipelineView.tsx 563-593: the agent_completed and agent_failed cases
ApplyAgentOutcome(p, e, status) ==
    [p EXCEPT !.phases =
        [k \in DOMAIN p.phases |->
            IF k - 1 = e.phaseIndex
            THEN [p.phases[k] EXCEPT !.agents =
                     [j \in DOMAIN p.phases[k].agents |->
                         IF p.phases[k].agents[j].id = e.agentRunId
                         THEN [p.phases[k].agents[j] EXCEPT !.status = status]
                         ELSE p.phases[k].agents[j]]]
            ELSE p.phases[k]]]

\* PipelineView.tsx 595-605: the phase_completed case
ApplyPhaseCompleted(p, e) ==
    LET phases == [k \in DOMAIN p.phases |->
                      IF k - 1 = e.phaseIndex
                      THEN [p.phases[k] EXCEPT !.status = "completed"]
                      ELSE p.phases[k]]
        status == IF e.phaseType = "think" THEN "building"
                  ELSE IF e.phaseType \in {"build", "iterate"} THEN "reviewing"
                  ELSE p.status
    IN [p EXCEPT !.phases = phases, !.status = status]

\* PipelineView.tsx 502-625: applyPipelineEvent
ApplyPipelineEvent(p, e) ==
    CASE e.type = "pipeline_started" -> [p EXCEPT !.status = "thinking"]
      [] e.type = "phase_started" -> ApplyPhaseStarted(p, e)
      [] e.type = "agent_started" -> ApplyAgentStarted(p, e)
      [] e.type = "agent_completed" -> ApplyAgentOutcome(p, e, "completed")
      [] e.type = "agent_failed" -> ApplyAgentOutcome(p, e, "failed")
      [] e.type = "phase_completed" -> ApplyPhaseCompleted(p, e)
      [] e.type = "pipeline_completed" -> [p EXCEPT !.status = e.info[1]]
      [] e.type = "pipeline_error" -> [p EXCEPT !.status = "failed"]
      [] e.type = "pipeline_cancelled" -> [p EXCEPT !.status = "cancelled"]
      [] OTHER -> p

\* ------------------------------------------------------- control helpers
Return(m) == IF Live(m) THEN [m EXCEPT !.returned = TRUE] ELSE m

\* a loop over the tracked runners that calls nothing
InOrderNone(S) == <<>>

\* the elements of a set of ids in insertion order (ids are handed out increasing)
RECURSIVE InOrder(_)
InOrder(S) ==
    IF S = {} THEN <<>>
    ELSE LET x == CHOOSE y \in S : \A z \in S : y <= z
         IN <<x>> \o InOrder(S \ {x})

\* position of run runId in the agents list of phase phaseIndex (0-based phase)
RunPos(p, phaseIndex, runId) ==
    CHOOSE k \in DOMAIN p.phases[phaseIndex + 1].agents :
        p.phases[phaseIndex + 1].agents[k].id = runId

\* a check that never sees the signal
NeverAborted == FALSE

\* checkAborted would throw: signal?.aborted
CheckAborted == signalAborted

\* --------------------------------------------------------- terminal blocks
\* line 920: errorMsg === 'Pipeline cancelled' || signal?.aborted
IsCancelled(errorMsg) == errorMsg = "Pipeline cancelled" \/ signalAborted

\* lines 917-947: the catch of runPipeline's outer try
OuterCatch(m) ==
    LET errorMsg == Get(m.exc)
        isCancelled == IsCancelled(errorMsg)
        m1 == [m EXCEPT !.exc = None,
                        !.abortLog = @ \o InOrder(m.activeRunners),
                        !.activeRunners = {}]
        m2 == UpdatePipeline(m1,
                [status |-> IF isCancelled THEN "cancelled" ELSE "failed",
                 totalCostUsd |-> Some(m1.totalCostUsd),
                 totalTokens |-> Some(m1.totalTokens)])
        m3 == Emit(m2, PipelineEvent(m2,
                IF isCancelled THEN "pipeline_cancelled" ELSE "pipeline_error",
                IF isCancelled THEN <<"Pipeline was stopped by user">> ELSE <<errorMsg>>))
    IN Return(m3)

\* lines 899-915: COMPLETE
Complete(m) ==
    LET m1 == UpdatePipeline(m,
                [status |-> "completed", completedAt |-> TRUE,
                 totalCostUsd |-> Some(m.totalCostUsd),
                 totalTokens |-> Some(m.totalTokens)])
        m2 == Emit(m1, PipelineEvent(m1, "pipeline_completed", <<"completed">>))
    IN Return(m2)

\* ------------------------------------------------ one run's outcome, recorded
\* a completion that is written to the first run of the phase
RunCompletedFirstRecord(m, phaseIndex, runId, o) ==
    [m EXCEPT !.pipeline.phases[phaseIndex + 1].agents[1].status = "completed",
              !.pipeline.phases[phaseIndex + 1].agents[1].output = Some(o.response)]

\* a completion whose usage is added to the running totals twice
RunCompletedCountedTwice(m, phaseIndex, runId, o) ==
    LET k == RunPos(m.pipeline, phaseIndex, runId)
        u == Get(o.usage)
        usage == [inputTokens |-> u.inputTokens,
                  outputTokens |-> u.outputTokens,
                  totalTokens |-> u.inputTokens + u.outputTokens,
                  costUsd |-> u.costUsd]
    IN [m EXCEPT !.pipeline.phases[phaseIndex + 1].agents[k].status = "completed",
                 !.pipeline.phases[phaseIndex + 1].agents[k].output = Some(o.response),
                 !.pipeline.phases[phaseIndex + 1].agents[k].tokenUsage =
                     IF IsSome(o.usage) THEN Some(usage) ELSE @,
                 !.totalCostUsd = IF IsSome(o.usage) THEN @ + 2 * u.costUsd ELSE @,
                 !.totalTokens = IF IsSome(o.usage) THEN @ + 2 * usage.totalTokens ELSE @]

\* lines 549-562 (think), 696-709 (build), 803-816 (review): the run completed
RunCompleted(m, phaseIndex, runId, o) ==
    LET k == RunPos(m.pipeline, phaseIndex, runId)
        u == Get(o.usage)
        usage == [inputTokens |-> u.inputTokens,
                  outputTokens |-> u.outputTokens,
                  totalTokens |-> u.inputTokens + u.outputTokens,
                  costUsd |-> u.costUsd]
    IN [m EXCEPT !.pipeline.phases[phaseIndex + 1].agents[k].status = "completed",
                 !.pipeline.phases[phaseIndex + 1].agents[k].output = Some(o.response),
                 !.pipeline.phases[phaseIndex + 1].agents[k].tokenUsage =
                     IF IsSome(o.usage) THEN Some(usage) ELSE @,
                 !.totalCostUsd = IF IsSome(o.usage) THEN @ + u.costUsd ELSE @,
                 !.totalTokens = IF IsSome(o.usage) THEN @ + usage.totalTokens ELSE @]

\* a failure that is recorded on every run of the phase
RunFailedWholePhase(m, phaseIndex, runId, msg) ==
    [m EXCEPT !.pipeline.phases[phaseIndex + 1].agents =
                  [k \in DOMAIN @ |-> [@[k] EXCEPT !.status = "failed", !.error = Some(msg)]]]

\* lines 574-576 / 588-590 and their build and review twins: the run failed
RunFailed(m, phaseIndex, runId, msg) ==
    LET k == RunPos(m.pipeline, phaseIndex, runId)
    IN [m EXCEPT !.pipeline.phases[phaseIndex + 1].agents[k].status = "failed",
                 !.pipeline.phases[phaseIndex + 1].agents[k].error = Some(msg)]

\* result.success && result.response
IsSuccess(o) == o.success /\ o.response # EmptyText

\* result.error?.message || fallback
ErrorMessage(o, fallback) == IF IsSome(o.error) THEN Get(o.error) ELSE fallback

\* ------------------------------------------------ a persona's closure
\* lines 534-605 (think) / 788-859 (review): try { ... } catch of one closure,
\* from the result of the await (or the exception thrown before or by it) on
PersonaOutcome(m, i, phaseIndex, runId, o, fallback) ==
    IF o.kind = "throw"
    THEN LET m1 == RunFailed(m, phaseIndex, runId, Get(o.error))
         IN Emit(m1, AgentEvent(m1, "agent_failed", phaseIndex, runId, i, Get(o.error)))
    ELSE LET d == [m EXCEPT !.activeRunners = @ \ {runId}]
         IN IF IsSuccess(o)
            THEN LET m1 == RunCompleted(d, phaseIndex, runId, o)
                 IN Emit(m1, AgentEvent(m1, "agent_completed", phaseIndex, runId, i, o.response))
            ELSE LET msg == ErrorMessage(o, fallback)
                     m1 == RunFailed(d, phaseIndex, runId, msg)
                 IN Emit(m1, AgentEvent(m1, "agent_failed", phaseIndex, runId, i, msg))

\* a closure that returns its run without the write of line 607
PersonaFinishNoSave(m, i) == [m EXCEPT !.tasks[i].state = "done"]

\* lines 607-608: updatePipeline({}); return agentRun  -- the closure's promise
\* resolves, or rejects when the write throws
PersonaFinish(m, i) ==
    LET m1 == UpdatePipeline(m, NoUpdates)
    IN [m1 EXCEPT !.tasks[i].state = IF m1.exc = None THEN "done" ELSE "rejected"]

FallbackError(phaseType) == IF phaseType = "think" THEN "Unknown error" ELSE "Review failed"

\* lines 519-546 (think) / 773-800 (review): the closure up to its await
PersonaStart(m, i, phaseIndex, phaseType) ==
    LET id == m.nextId
        m0 == [m EXCEPT !.nextId = @ + 1,
                        !.tasks[i] = [state |-> "rejected", phase |-> phaseIndex, id |-> id],
                        !.pipeline.phases[phaseIndex + 1].agents = Append(@, CreateAgentRun(id, i))]
        m1 == UpdatePipeline(m0, NoUpdates)
        m2 == Emit(m1, AgentEvent(m1, "agent_started", phaseIndex, id, i, None))
    IN IF m2.exc # None THEN m2
       ELSE IF CheckAborted
       THEN PersonaFinish(PersonaOutcome(m2, i, phaseIndex, id, Thrown("Pipeline cancelled"),
                                         FallbackError(phaseType)), i)
       ELSE [m2 EXCEPT !.activeRunners = @ \cup {id}, !.tasks[i].state = "streaming"]

\* a map that starts the first persona's closure only
MapFirstPersona(m, i, phaseIndex, phaseType) ==
    IF i > 1 THEN m ELSE PersonaStart([m EXCEPT !.exc = None], i, phaseIndex, phaseType)

\* personas.map(async (persona) => ...): the closures run in list order, each to
\* its first await; a closure that throws only rejects its own promise
RECURSIVE MapPersonas(_, _, _, _)
MapPersonas(m, i, phaseIndex, phaseType) ==
    IF i > NumPersonas THEN m
    ELSE LET c == PersonaStart([m EXCEPT !.exc = None], i, phaseIndex, phaseType)
             first == IF m.exc # None THEN m.exc ELSE c.exc
         IN MapPersonas([c EXCEPT !.exc = first], i + 1, phaseIndex, phaseType)

\* a join that resumes as soon as one closure has returned
AnySettled(m) == \E i \in PersonaIds : m.tasks[i].state = "done"

AllSettled(m) == \A i \in PersonaIds : m.tasks[i].state = "done"

\* ------------------------------------------------------ runPipeline's blocks
\* pipeline.phases.push(createPhase(type))
PushPhase(m, type) ==
    IF ~Live(m) THEN m
    ELSE [m EXCEPT !.nextId = @ + 1,
                   !.pipeline.phases = Append(@, CreatePhase(m.nextId, type))]

\* a runner that never writes a phase status
SetPhaseStatusSkipped(m, phaseIndex, status) == m

\* a runner that writes every phase status to the first phase
SetPhaseStatusFirst(m, phaseIndex, status) ==
    IF ~Live(m) THEN m
    ELSE [m EXCEPT !.pipeline.phases[1].status = status]

SetPhaseStatus(m, phaseIndex, status) ==
    IF ~Live(m) THEN m
    ELSE [m EXCEPT !.pipeline.phases[phaseIndex + 1].status = status]

\* a filter that keeps every run, whatever its status and output
CompletedOutputsAnyStatus(phase) ==
    [k \in 1..Len(phase.agents) |->
        [personaId |-> phase.agents[k].personaId,
         output |-> IF IsSome(phase.agents[k].output) THEN Get(phase.agents[k].output)
                    ELSE EmptyText]]

\* the outputs of a phase's runs with status 'completed' and a non-empty output
CompletedOutputs(phase) ==
    LET keep == SelectSeq(phase.agents,
                    LAMBDA r : r.status = "completed" /\ IsSome(r.output)
                               /\ Get(r.output) # EmptyText)
    IN [k \in 1..Len(keep) |-> [personaId |-> keep[k].personaId, output |-> Get(keep[k].output)]]

\* a test that only sees the upper-case spelling
HasMajorIssuesCaseSensitive(reviewResults) ==
    \E k \in 1..Len(reviewResults) : Includes(reviewResults[k].output, "MAJOR_ISSUES")

\* lines 874-876: reviewResults.some(r => r.output?.toUpperCase().includes('MAJOR_ISSUES'))
HasMajorIssues(reviewResults) ==
    \E k \in 1..Len(reviewResults) :
        Includes(ToUpperCase(reviewResults[k].output), "MAJOR_ISSUES")

\* a stop condition that needs both a clean review and an exhausted budget
StopLoopBoth(hasMajorIssues, it, maxIterations) == ~hasMajorIssues /\ it >= maxIterations

\* line 878: !hasMajorIssues || iteration >= pipeline.maxIterations
StopLoop(hasMajorIssues, it, maxIterations) == ~hasMajorIssues \/ it >= maxIterations

\* loop conditions that are off by one, either way
LoopConditionOneMore(it, maxIterations) == it <= maxIterations + 1
LoopConditionOneLess(it, maxIterations) == it < maxIterations

\* line 646: iteration <= pipeline.maxIterations
LoopCondition(it, maxIterations) == it <= maxIterations

\* line 636
AllBriefsFailedMsg == "All persona briefs failed. Cannot proceed to build phase."

\* line 631: successfulBriefs.length === 0
NoViableBrief(briefs) == Len(briefs) = 0

\* a build failure that leaves its phase running
BuildFailedPhaseRunning(m, phaseIndex, runId, prefix, msg) ==
    IF ~Live(m) THEN m
    ELSE LET m1 == RunFailed(m, phaseIndex, runId, msg)
             m3 == UpdatePipeline(m1, [status |-> "failed",
                                       totalCostUsd |-> Some(m1.totalCostUsd),
                                       totalTokens |-> Some(m1.totalTokens)])
             m4 == Emit(m3, PipelineEvent(m3, "pipeline_error", <<prefix, msg>>))
         IN Return(m4)

\* lines 720-733 (a failure result) and 735-753 (an exception): the build failed
BuildFailed(m, phaseIndex, runId, prefix, msg) ==
    IF ~Live(m) THEN m
    ELSE LET m1 == RunFailed(m, phaseIndex, runId, msg)
             m2 == SetPhaseStatus(m1, phaseIndex, "failed")
             m3 == UpdatePipeline(m2, [status |-> "failed",
                                       totalCostUsd |-> Some(m2.totalCostUsd),
                                       totalTokens |-> Some(m2.totalTokens)])
             m4 == Emit(m3, PipelineEvent(m3, "pipeline_error", <<prefix, msg>>))
         IN Return(m4)

\* a loop that reports every build as 'building'
BuildStatusAlwaysBuilding(it) == "building"

\* line 648: iteration === 0 ? 'building' : 'iterating'
BuildStatus(it) == IF it = 0 THEN "building" ELSE "iterating"

\* a loop whose every turn appends a phase of type `build`
BuildPhaseTypeAlwaysBuild(it) == "build"

\* line 650: iteration === 0 ? 'build' : 'iterate'
BuildPhaseType(it) == IF it = 0 THEN "build" ELSE "iterate"

\* lines 647-693: one turn of the loop, up to the await of the build run
BuildStart(m, it) ==
    IF ~Live(m) THEN m
    ELSE LET type == BuildPhaseType(it)
             m1 == [m EXCEPT !.iteration = it, !.pipeline.iteration = it]
             m2 == UpdatePipeline(m1, [status |-> BuildStatus(it)])
             m3 == PushPhase(m2, type)
             buildPhaseIndex == Len(m3.pipeline.phases) - 1
             m4 == UpdatePipeline(m3, NoUpdates)
             m5 == Emit(m4, PhaseEvent(m4, "phase_started", buildPhaseIndex, type))
             id == m5.nextId
             m6 == IF ~Live(m5) THEN m5
                   ELSE [m5 EXCEPT !.nextId = @ + 1,
                                   !.pipeline.phases[buildPhaseIndex + 1].agents =
                                       Append(@, CreateAgentRun(id, ManagerId))]
             m7 == UpdatePipeline(m6, NoUpdates)
             m8 == Emit(m7, AgentEvent(m7, "agent_started", buildPhaseIndex, id, ManagerId, None))
         IN IF ~Live(m8) THEN m8
            ELSE IF CheckAborted
            THEN BuildFailed(m8, buildPhaseIndex, id, "Build phase error", "Pipeline cancelled")
            ELSE [m8 EXCEPT !.buildInputs = Append(@, IF it = 0 THEN m8.successfulBriefs
                                                      ELSE m8.lastReviewFeedback),
                            !.activeRunners = @ \cup {id},
                            !.buildRun = [phase |-> buildPhaseIndex, id |-> id],
                            !.pc = "awaitBuild"]

\* line 646: for (let iteration = ...; iteration <= pipeline.maxIterations; iteration++)
LoopHead(m, it) ==
    IF ~Live(m) THEN m
    ELSE IF LoopCondition(it, m.pipeline.maxIterations) THEN BuildStart(m, it)
    ELSE Complete(m)

\* lines 867-894: the review phase is over; stop or iterate
ReviewJoin(m) ==
    IF ~Live(m) THEN m
    ELSE LET reviewPhaseIndex == Len(m.pipeline.phases) - 1
             m1 == SetPhaseStatus(m, reviewPhaseIndex, "completed")
             m2 == UpdatePipeline(m1, NoUpdates)
             m3 == Emit(m2, PhaseEvent(m2, "phase_completed", reviewPhaseIndex, "review"))
             reviewResults == CompletedOutputs(m3.pipeline.phases[reviewPhaseIndex + 1])
         IN IF StopLoop(HasMajorIssues(reviewResults), m3.iteration, m3.pipeline.maxIterations)
            THEN Complete(m3)
            ELSE LoopHead([m3 EXCEPT !.lastReviewFeedback = reviewResults], m3.iteration + 1)

\* lines 611-639: the think phase is over
ThinkJoin(m) ==
    IF ~Live(m) THEN m
    ELSE LET m1 == SetPhaseStatus(m, 0, "completed")
             m2 == UpdatePipeline(m1, NoUpdates)
             m3 == Emit(m2, PhaseEvent(m2, "phase_completed", 0, "think"))
             briefs == CompletedOutputs(m3.pipeline.phases[1])
         IN IF ~Live(m3) THEN m3
            ELSE IF NoViableBrief(briefs)
            THEN LET m4 == UpdatePipeline(m3, [status |-> "failed"])
                     m5 == Emit(m4, PipelineEvent(m4, "pipeline_error", <<AllBriefsFailedMsg>>))
                 IN Return(m5)
            ELSE LoopHead([m3 EXCEPT !.successfulBriefs = briefs,
                                     !.lastReviewFeedback = <<>>], 0)

\* await Promise.all(promises): rejected by the first closure that rejected,
\* resolved once every closure has returned, pending otherwise
AwaitAll(m, phaseType) ==
    IF ~Live(m) THEN m
    ELSE IF AllSettled(m)
    THEN IF phaseType = "think" THEN ThinkJoin(m) ELSE ReviewJoin(m)
    ELSE [m EXCEPT !.pc = IF phaseType = "think" THEN "awaitThink" ELSE "awaitReview"]

\* lines 499-611: from the call of runPipeline to the await of the briefs
ThinkStart(m) ==
    LET m1 == Emit(m, PipelineEvent(m, "pipeline_started", None))
        m2 == UpdatePipeline(m1, [status |-> "thinking"])
        m3 == PushPhase(m2, "think")
        m4 == UpdatePipeline(m3, NoUpdates)
        m5 == Emit(m4, PhaseEvent(m4, "phase_started", 0, "think"))
        m6 == IF Live(m5) THEN MapPersonas(m5, 1, 0, "think") ELSE m5
    IN AwaitAll(m6, "think")

\* lines 756-865: the build succeeded; the review phase, up to the await of the reviews
ReviewStart(m, buildPhaseIndex) ==
    IF ~Live(m) THEN m
    ELSE LET m1 == SetPhaseStatus(m, buildPhaseIndex, "completed")
             m2 == UpdatePipeline(m1, NoUpdates)
             m3 == Emit(m2, PhaseEvent(m2, "phase_completed", buildPhaseIndex,
                                       m2.pipeline.phases[buildPhaseIndex + 1].type))
             m4 == UpdatePipeline(m3, [status |-> "reviewing"])
             m5 == PushPhase(m4, "review")
             reviewPhaseIndex == Len(m5.pipeline.phases) - 1
             m6 == UpdatePipeline(m5, NoUpdates)
             m7 == Emit(m6, PhaseEvent(m6, "phase_started", reviewPhaseIndex, "review"))
             m8 == IF Live(m7) THEN MapPersonas(m7, 1, reviewPhaseIndex, "review") ELSE m7
         IN AwaitAll(m8, "review")

\* lines 693-754: the build run's await returns or throws; a write of line 727
\* that throws is caught by the build's own catch (line 735)
BuildOutcome(m, o) ==
    LET phaseIndex == m.buildRun.phase
        runId == m.buildRun.id
    IN IF o.kind = "throw"
       THEN BuildFailed(m, phaseIndex, runId, "Build phase error", Get(o.error))
       ELSE LET d == [m EXCEPT !.activeRunners = @ \ {runId}]
            IN IF IsSuccess(o)
               THEN LET m1 == RunCompleted(d, phaseIndex, runId, o)
                        m2 == Emit(m1, AgentEvent(m1, "agent_completed", phaseIndex, runId,
                                                  ManagerId, o.response))
                    IN ReviewStart(m2, phaseIndex)
               ELSE LET f == BuildFailed(d, phaseIndex, runId, "Build phase failed",
                                         ErrorMessage(o, "Build failed"))
                    IN IF f.exc # None
                       THEN BuildFailed([f EXCEPT !.exc = None], phaseIndex, runId,
                                        "Build phase error", Get(f.exc))
                       ELSE f

\* an exception that reaches the outer try is handled by its catch
MainEnd(m) == IF m.exc # None THEN OuterCatch(m) ELSE m

\* ------------------------------------------------------------------ actions
\* The savePipeline calls of one block that throw, by their order in the block:
\* none while faultsLeft = 0.  A block that makes n calls when none throws makes
\* at most n + 2 when some do (the one of the build's catch and the one of the
\* outer catch).
Plans(n) ==
    IF faultsLeft = 0 THEN {{}}
    ELSE {P \in SUBSET (1..(n + 2)) : Cardinality(P) <= faultsLeft}

Awaiting == pc \in {"awaitThink", "awaitBuild", "awaitReview"}

\* the block is over: runPipeline is suspended again, has returned, or has thrown
Commit(m) ==
    /\ pipeline' = m.pipeline
    /\ stored' = m.stored
    /\ events' = m.events
    /\ activeRunners' = m.activeRunners
    /\ abortLog' = m.abortLog
    /\ totalCostUsd' = m.totalCostUsd
    /\ totalTokens' = m.totalTokens
    /\ tasks' = m.tasks
    /\ buildRun' = m.buildRun
    /\ iteration' = m.iteration
    /\ successfulBriefs' = m.successfulBriefs
    /\ lastReviewFeedback' = m.lastReviewFeedback
    /\ buildInputs' = m.buildInputs
    /\ nextId' = m.nextId
    /\ faultsLeft' = m.faultsLeft
    /\ statusLog' = m.statusLog
    /\ pc' = IF m.returned \/ m.exc # None THEN "done" ELSE m.pc
    /\ promise' = IF m.exc # None THEN "rejected"
                  ELSE IF m.returned THEN "resolved"
                  ELSE IF promise = "none" THEN "pending" ELSE promise
    /\ UNCHANGED <<signalAborted, cancelPoint>>
    /\ UNCHANGED streamVars

\* runPipeline(config) is called (lines 442-611)
RunPipelineBlock(plan) == MainEnd(ThinkStart(Machine(plan)))

RunPipeline ==
    /\ pc = "start"
    /\ promise = "none"
    /\ \E plan \in Plans(RunPipelineBlock({}).saveNo) : Commit(RunPipelineBlock(plan))

\* one persona's agent run settles: its closure resumes after the await (lines
\* 546-608 / 800-862) and, if it was the last one, runPipeline resumes after
\* Promise.all; a closure that outlived runPipeline just ends
PersonaBlock(i, o, plan) ==
    LET t == tasks[i]
        type == pipeline.phases[t.phase + 1].type
        c == PersonaFinish(
                 PersonaOutcome(Machine(plan), i, t.phase, t.id, o, FallbackError(type)), i)
    IN IF pc \in {"awaitThink", "awaitReview"}
       THEN MainEnd(AwaitAll(c, type))
       ELSE [c EXCEPT !.exc = None]

PersonaSettles ==
    \E i \in PersonaIds :
        /\ tasks[i].state = "streaming"
        /\ \E o \in Outcomes(pipeline.phases[tasks[i].phase + 1].type) :
              \E plan \in Plans(PersonaBlock(i, o, {}).saveNo) :
                  Commit(PersonaBlock(i, o, plan))

\* the build run settles: runPipeline resumes after the await of line 693
BuildBlock(o, plan) == MainEnd(BuildOutcome(Machine(plan), o))

BuildSettles ==
    /\ pc = "awaitBuild"
    /\ \E o \in Outcomes("build") :
          \E plan \in Plans(BuildBlock(o, {}).saveNo) : Commit(BuildBlock(o, plan))

\* the caller's AbortController.abort(): the signal fires once; onAbort (lines
\* 452-458) runs while runPipeline's listener is registered (lines 459, 949)
Cancel ==
    /\ ~signalAborted
    /\ signalAborted' = TRUE
    /\ cancelPoint' = pc
    /\ IF Awaiting
       THEN /\ abortLog' = abortLog \o InOrder(activeRunners)
            /\ activeRunners' = {}
       ELSE UNCHANGED <<abortLog, activeRunners>>
    /\ UNCHANGED <<pipeline, stored, events, totalCostUsd, totalTokens, tasks, buildRun,
                   iteration, successfulBriefs, lastReviewFeedback, buildInputs, nextId,
                   pc, promise, faultsLeft, statusLog>>
    /\ UNCHANGED streamVars

\* abort() on a signal that has already fired does nothing
CancelAgain ==
    /\ signalAborted
    /\ UNCHANGED vars

Next == RunPipeline \/ PersonaSettles \/ BuildSettles \/ Cancel \/ CancelAgain

Spec == Init /\ [][Next]_vars

\* the same runner over a storage whose writes may throw
InitFaults == InitWith(MaxFaults)
SpecFaults == InitFaults /\ [][Next]_vars

\* the same runner, with the scheduling the code relies on: runPipeline is
\* called, and every agent run's stream eventually ends.  Each condition is
\* weak fairness of its action, WF_vars(A), with ENABLED <<A>>_vars written out:
\* the action is its guard followed by choices from non-empty sets and the
\* assignment of every variable, and each one changes promise, tasks or pc.
RunPipelineEnabled == pc = "start" /\ promise = "none"
PersonaSettlesEnabled == \E i \in PersonaIds : tasks[i].state = "streaming"
BuildSettlesEnabled == pc = "awaitBuild"

Fairness ==
    /\ ([]<>(~RunPipelineEnabled) \/ []<><<RunPipeline>>_vars)
    /\ ([]<>(~PersonaSettlesEnabled) \/ []<><<PersonaSettles>>_vars)
    /\ ([]<>(~BuildSettlesEnabled) \/ []<><<BuildSettles>>_vars)

SpecLive == Init /\ [][Next]_vars /\ Fairness

\* ------------------------------------------- runAgentWithStreaming (263-402)
\* the locals of the call, as a value
StreamState ==
    [streamingLog |-> streamingLog, activeTool |-> activeTool,
     toolCallCount |-> toolCallCount, lastEmitTime |-> lastEmitTime,
     hasContent |-> hasContent, aborted |-> aborted,
     watchdogAborts |-> watchdogAborts, lastProgress |-> lastProgress,
     progressCount |-> progressCount]

\* lines 284-290
TrimLog(s) ==
    IF Length(s.streamingLog) > MAX_LOG_LENGTH
    THEN LET excess == Length(s.streamingLog) - MAX_LOG_LENGTH
             cutPoint == IndexOfBreak(s.streamingLog, excess, 0)
         IN [s EXCEPT !.streamingLog = IF cutPoint > 0 THEN Slice(@, cutPoint)
                                       ELSE Slice(@, excess)]
    ELSE s

\* a snapshot that is emitted on every call
EmitProgressUnthrottled(s, force) ==
    [s EXCEPT !.lastProgress = Some([text |-> s.streamingLog,
                                     activeTool |-> s.activeTool,
                                     toolCallCount |-> s.toolCallCount]),
              !.progressCount = @ + 1,
              !.lastEmitTime = now]

\* lines 292-307, called at time now
EmitProgress(s, force) ==
    IF force \/ now - s.lastEmitTime >= THROTTLE_MS
    THEN [s EXCEPT !.lastProgress = Some([text |-> s.streamingLog,
                                          activeTool |-> s.activeTool,
                                          toolCallCount |-> s.toolCallCount]),
                   !.progressCount = @ + 1,
                   !.lastEmitTime = now]
    ELSE s

\* Math.round((Date.now() - startTime) / 1000)
ElapsedSecs == (now - StartTime + 500) \div 1000

\* `*Starting agent subprocess... (${elapsedSecs}s)*`
StartingText == Chars(31 + Digits(ElapsedSecs) + 3)
\* `\n\n**Agent unresponsive — restarting...**\n`
UnresponsiveText == Concat(LineFeeds(2), Concat(Chars(38), LineFeeds(1)))
\* `*${event.message}*`
StatusText(message) == Concat(Chars(1), Concat(message, Chars(1)))
\* `\n\n${entry}\n\n`
ToolText(entry) == Concat(LineFeeds(2), Concat(entry, LineFeeds(2)))
\* `\n\n**Error:** ${event.message}\n\n`
ErrorText(message) == Concat(LineFeeds(2), Concat(Chars(11), Concat(message, LineFeeds(2))))

\* a watchdog that waits for the silence to exceed the timeout
WatchdogStrictlyLonger(s) ==
    IF ~s.aborted /\ now - lastEventTime > ABORT_TIMEOUT_MS
    THEN LET s1 == [s EXCEPT !.aborted = TRUE,
                             !.streamingLog = Concat(@, UnresponsiveText)]
             s2 == EmitProgress(s1, TRUE)
         IN [s2 EXCEPT !.watchdogAborts = @ + 1]
    ELSE IF ~s.hasContent
    THEN EmitProgress([s EXCEPT !.streamingLog = StartingText], TRUE)
    ELSE EmitProgress(s, TRUE)

\* lines 311-334: one call of the setInterval callback
Watchdog(s) ==
    IF ~s.aborted /\ now - lastEventTime >= ABORT_TIMEOUT_MS
    THEN LET s1 == [s EXCEPT !.aborted = TRUE,
                             !.streamingLog = Concat(@, UnresponsiveText)]
             s2 == EmitProgress(s1, TRUE)
         IN [s2 EXCEPT !.watchdogAborts = @ + 1]
    ELSE IF ~s.hasContent
    THEN EmitProgress([s EXCEPT !.streamingLog = StartingText], TRUE)
    ELSE EmitProgress(s, TRUE)

\* lines 342-384: the switch, for every event but 'complete'
FirstContent(s) ==
    IF ~s.hasContent THEN [s EXCEPT !.streamingLog = EmptyLog, !.hasContent = TRUE] ELSE s

\* lines 350-355 and 361-367: the log of a text_delta or tool_start event, as
\* trimLog finds it
AppendEvent(s, e) ==
    LET s1 == FirstContent(s)
    IN IF e.type = "text_delta"
       THEN [s1 EXCEPT !.streamingLog = Concat(@, e.text)]
       ELSE [s1 EXCEPT !.activeTool = Some("Task"),
                       !.streamingLog = Concat(@, ToolText(e.text))]

OnEvent(s, e) ==
    CASE e.type = "status" ->
           EmitProgress([s EXCEPT !.streamingLog = StatusText(e.text)], TRUE)
      [] e.type = "text_delta" -> EmitProgress(TrimLog(AppendEvent(s, e)), FALSE)
      [] e.type = "tool_start" -> EmitProgress(TrimLog(AppendEvent(s, e)), TRUE)
      [] e.type = "tool_result" ->
           EmitProgress([s EXCEPT !.activeTool = None, !.toolCallCount = @ + 1], TRUE)
      [] e.type = "error" ->
           EmitProgress([s EXCEPT !.streamingLog = Concat(@, ErrorText(e.text))], TRUE)
      [] OTHER -> s

\* lines 386-391: case 'complete'
OnComplete(s) ==
    IF s.streamingLog # EmptyLog \/ s.toolCallCount > 0 THEN EmitProgress(s, TRUE) ELSE s

\* a fallback result that does not tell the two endings apart
FallbackResultOneMessage(s) == ResultFail(Some(NoCompletionMsg))

\* lines 398-401: the stream ended without a complete event
FallbackResult(s) == ResultFail(Some(IF s.aborted THEN UnresponsiveMsg ELSE NoCompletionMsg))

\* what the stream may deliver: HeadlessEvents, each with the text it carries
\* (a message, a delta, a formatted tool entry) or the result it carries
StreamEvent(type, text, res) == [type |-> type, text |-> text, res |-> res]

TextDeltas ==
    { Chars(2500),
      Concat(Chars(2000), Concat(LineFeeds(2), Chars(1000))),
      Chars(MAX_LOG_LENGTH) }

StreamEvents ==
    {StreamEvent("status", Chars(12), None)}
    \cup {StreamEvent("text_delta", t, None) : t \in TextDeltas}
    \cup {StreamEvent("tool_start", Chars(12), None)}
    \cup {StreamEvent("tool_result", EmptyLog, None)}
    \cup {StreamEvent("error", Chars(5), None)}
    \cup {StreamEvent("complete", EmptyLog, Some(r)) :
              r \in {ResultOk(BriefText, Usage1), ResultFail(None)}}

CommitStream(s) ==
    /\ streamingLog' = s.streamingLog
    /\ activeTool' = s.activeTool
    /\ toolCallCount' = s.toolCallCount
    /\ lastEmitTime' = s.lastEmitTime
    /\ hasContent' = s.hasContent
    /\ aborted' = s.aborted
    /\ watchdogAborts' = s.watchdogAborts
    /\ lastProgress' = s.lastProgress
    /\ progressCount' = s.progressCount

\* a finally block that leaves the timer running
ClearIntervalForgotten(timer) == timer

\* lines 394-396: finally { clearInterval(watchdogInterval) }
ClearInterval(timer) == "cleared"

\* the for await loop receives an event (lines 339-392)
StreamDelivers ==
    /\ stream = "open"
    /\ delivered < MaxStreamEvents
    /\ \E e \in StreamEvents :
          /\ lastEventTime' = now
          /\ eventType' = e.type
          /\ delivered' = delivered + 1
          /\ IF e.type = "complete"
             THEN /\ CommitStream(OnComplete(StreamState))
                  /\ stream' = "returned"
                  /\ result' = e.res
                  /\ watchdogInterval' = ClearInterval(watchdogInterval)
             ELSE /\ CommitStream(OnEvent(StreamState, e))
                  /\ UNCHANGED <<stream, result, watchdogInterval>>
    /\ UNCHANGED <<now, nextTick, runnerVars>>

\* the stream ends without a complete event (lines 394-401)
StreamEnds ==
    /\ stream = "open"
    /\ stream' = "returned"
    /\ result' = Some(FallbackResult(StreamState))
    /\ watchdogInterval' = ClearInterval(watchdogInterval)
    /\ UNCHANGED <<streamingLog, activeTool, toolCallCount, lastEmitTime, lastEventTime,
                   hasContent, aborted, now, nextTick, watchdogAborts, lastProgress,
                   progressCount, eventType, delivered, runnerVars>>

\* the stream throws: the exception leaves runAgentWithStreaming (lines 394-396)
StreamThrows ==
    /\ stream = "open"
    /\ stream' = "thrown"
    /\ watchdogInterval' = ClearInterval(watchdogInterval)
    /\ UNCHANGED <<streamingLog, activeTool, toolCallCount, lastEmitTime, lastEventTime,
                   hasContent, aborted, now, nextTick, result, watchdogAborts,
                   lastProgress, progressCount, eventType, delivered, runnerVars>>

\* the interval timer is due and its callback runs (lines 311-334)
WatchdogTick ==
    /\ watchdogInterval = "set"
    /\ now = nextTick
    /\ nextTick < StartTime + MaxTicks * WATCHDOG_MS
    /\ CommitStream(Watchdog(StreamState))
    /\ nextTick' = nextTick + WATCHDOG_MS
    /\ UNCHANGED <<lastEventTime, now, stream, result, watchdogInterval, eventType, delivered,
                   runnerVars>>

\* how far the clock may move in one step
ClockSteps ==
    IF now < StartTime + FineClockMs THEN {FineStepMs, ClockStepMs} ELSE {ClockStepMs}

\* time passes, up to the moment the timer is due
ClockPasses ==
    /\ stream = "open"
    /\ now < nextTick
    /\ \E d \in ClockSteps : now' = IF now + d > nextTick THEN nextTick ELSE now + d
    /\ UNCHANGED <<streamingLog, activeTool, toolCallCount, lastEmitTime, lastEventTime,
                   hasContent, aborted, nextTick, stream, result, watchdogAborts,
                   lastProgress, progressCount, watchdogInterval, eventType, delivered,
                   runnerVars>>

NextStream == StreamDelivers \/ StreamEnds \/ StreamThrows \/ WatchdogTick \/ ClockPasses

InitStream == Init /\ pipeline.maxIterations = 0

SpecStream == InitStream /\ [][NextStream]_vars

\* ============================================================ the claims
Phases == pipeline.phases
BuildTypes == {"build", "iterate"}
TerminalStatuses == {"completed", "failed", "cancelled"}
TerminalEventTypes == {"pipeline_completed", "pipeline_error", "pipeline_cancelled"}
BuildPhases == {k \in DOMAIN Phases : Phases[k].type \in BuildTypes}
ReviewPhases == {k \in DOMAIN Phases : Phases[k].type = "review"}
BuildCount == Cardinality(BuildPhases)
ReviewCount == Cardinality(ReviewPhases)
Resolved == promise = "resolved"
FiredWhileRunning == cancelPoint \in {"awaitThink", "awaitBuild", "awaitReview"}
TerminalEvents == {k \in DOMAIN events : events[k].type \in TerminalEventTypes}
EventFor(status) ==
    CASE status = "completed" -> "pipeline_completed"
      [] status = "failed" -> "pipeline_error"
      [] status = "cancelled" -> "pipeline_cancelled"
      [] OTHER -> "none"

\* a completed run of phase k whose output mentions MAJOR_ISSUES in any case
ReviewHasMajor(k) ==
    \E j \in DOMAIN Phases[k].agents :
        LET r == Phases[k].agents[j]
        IN /\ r.status = "completed"
           /\ IsSome(r.output)
           /\ \E w \in DOMAIN Get(r.output) :
                 Get(r.output)[w] \in {"MAJOR_ISSUES", "Major_Issues", "major_issues"}

\* C1: whenever the cancellation signal fires while the pipeline is running (in
\* the think, a build or a review phase), runPipeline resolves with a pipeline
\* whose status is cancelled.
C1_CancelResolvesCancelled ==
    (pc = "done" /\ FiredWhileRunning) => (Resolved /\ pipeline.status = "cancelled")

\* C2: when the signal fires while think runs are still in flight, runPipeline
\* resolves with status cancelled, the think phase is not completed, and no
\* build phase has been appended.
C2_CancelDuringThink ==
    (pc = "done" /\ cancelPoint = "awaitThink") =>
        /\ Resolved
        /\ pipeline.status = "cancelled"
        /\ Phases[1].status # "completed"
        /\ BuildPhases = {}

\* C3: if every agent run's stream eventually ends then, whatever the agents
\* return and whenever the signal fires, runPipeline eventually resolves with a
\* status among completed, failed and cancelled, and stays so; it never rejects; and
\* it never runs more build phases than maxIterations + 1.
C3_Terminates ==
    /\ <>[](Resolved /\ pipeline.status \in TerminalStatuses)
    /\ [](promise # "rejected")
    /\ [](BuildCount <= (IF pipeline.maxIterations < 0 THEN 0 ELSE pipeline.maxIterations + 1))

C3_Witness ==
    /\ Resolved
    /\ pipeline.status = "completed"
    /\ BuildCount = 2
    /\ cancelPoint = "awaitReview"

\* C4: if every think run failed, the pipeline has ended failed, the
\* all-briefs-failed pipeline_error was emitted, and the think phase is the only
\* phase.
AllThinkFailed ==
    /\ Len(Phases) >= 1
    /\ Len(Phases[1].agents) = NumPersonas
    /\ \A j \in DOMAIN Phases[1].agents : Phases[1].agents[j].status = "failed"

C4_AllBriefsFailed ==
    AllThinkFailed =>
        /\ Resolved
        /\ pipeline.status = "failed"
        /\ stored.status = "failed"
        /\ Len(Phases) = 1
        /\ \E k \in DOMAIN events :
              events[k].type = "pipeline_error" /\ events[k].info = <<AllBriefsFailedMsg>>

C4_Witness ==
    /\ AllThinkFailed
    /\ Resolved
    /\ \E j \in DOMAIN Phases[1].agents : Phases[1].agents[j].error = Some("stream error")
    /\ \E j \in DOMAIN Phases[1].agents : Phases[1].agents[j].error = Some("Unknown error")

\* C5: once the build run of any iteration has failed (by a failure result or by an
\* exception), the pipeline has ended failed, that build phase is failed, and it is
\* the last phase: no review phase and no further build phase follows it.
C5_BuildFailureIsFatal ==
    \A k \in BuildPhases :
        (Len(Phases[k].agents) = 1 /\ Phases[k].agents[1].status = "failed") =>
            /\ Resolved
            /\ pipeline.status = "failed"
            /\ stored.status = "failed"
            /\ Phases[k].status = "failed"
            /\ k = Len(Phases)

C5_Witness ==
    /\ Resolved
    /\ Len(Phases) = 4
    /\ Phases[4].type = "iterate"
    /\ Phases[4].agents[1].status = "failed"
    /\ Phases[4].agents[1].error = Some("stream error")
    /\ pipeline.maxIterations = 1

\* C6: for maxIterations = M >= 0, once the loop is entered there are never more
\* than M + 1 build phases, and a run in which every build succeeded and every
\* review phase had a completed review with MAJOR_ISSUES ends completed with
\* exactly M + 1 build phases and M + 1 review phases.
C6_BudgetExhausted ==
    pipeline.maxIterations >= 0 =>
        /\ BuildCount <= pipeline.maxIterations + 1
        /\ ( /\ pc = "done"
             /\ BuildCount >= 1
             /\ \A k \in BuildPhases : Phases[k].agents[1].status = "completed"
             /\ \A k \in ReviewPhases : ReviewHasMajor(k) )
           => /\ Resolved
              /\ pipeline.status = "completed"
              /\ BuildCount = pipeline.maxIterations + 1
              /\ ReviewCount = pipeline.maxIterations + 1

C6_Witness ==
    /\ pc = "done"
    /\ pipeline.maxIterations = MaxIterBound
    /\ BuildCount = MaxIterBound + 1
    /\ ReviewCount = MaxIterBound + 1
    /\ \A k \in ReviewPhases : ReviewHasMajor(k)
    /\ pipeline.status = "completed"

\* C7: if the first review phase is over and none of its completed reviews
\* mentions MAJOR_ISSUES, the pipeline has ended completed with exactly one build
\* phase and one review phase, whatever maxIterations >= 0 is.
FirstReviewClean ==
    /\ ReviewPhases # {}
    /\ LET k == CHOOSE x \in ReviewPhases : \A y \in ReviewPhases : x <= y
       IN Phases[k].status = "completed" /\ ~ReviewHasMajor(k)

C7_CleanReviewStops ==
    (FirstReviewClean /\ pipeline.maxIterations >= 0) =>
        /\ Resolved
        /\ pipeline.status = "completed"
        /\ BuildCount = 1
        /\ ReviewCount = 1

C7_Witness ==
    /\ FirstReviewClean
    /\ pipeline.maxIterations = 1
    /\ Resolved
    /\ cancelPoint = "none"

\* C8: a run that has resolved has emitted exactly one terminal event, which is its
\* last event, whose type matches the pipeline's status, and that status was in
\* storage when the event was emitted.
C8_OneFinalTerminalEvent ==
    Resolved =>
        /\ Cardinality(TerminalEvents) = 1
        /\ events[Len(events)].type = EventFor(stored.status)
        /\ events[Len(events)].stored = stored.status
        /\ stored.status = pipeline.status

C10_PhaseStatusMonotonic ==
    [][\A k \in DOMAIN pipeline.phases :
          /\ k \in DOMAIN pipeline'.phases
          /\ LET a == pipeline.phases[k].status
                 b == pipeline'.phases[k].status
             IN /\ a \in {"completed", "failed"} => b = a
                /\ a = "running" => b \in {"running", "completed", "failed"}]_vars

C10_Witness ==
    /\ Len(Phases) = 4
    /\ Phases[1].status = "completed"
    /\ Phases[2].status = "completed"
    /\ Phases[3].status = "completed"
    /\ Phases[4].status = "failed"

\* C11: in a pipeline whose status is completed, in memory or in storage, every
\* phase of the phase list has status completed.
C11_CompletedMeansAllPhasesCompleted ==
    /\ pipeline.status = "completed" =>
           \A k \in DOMAIN pipeline.phases : pipeline.phases[k].status = "completed"
    /\ stored.status = "completed" =>
           \A k \in DOMAIN stored.phases : stored.phases[k].status = "completed"

C11_Witness ==
    /\ Resolved
    /\ stored.status = "completed"
    /\ Len(stored.phases) = 5
    /\ \E j \in DOMAIN Phases[3].agents : Phases[3].agents[j].status = "failed"

\* C12: every phase but the last one of the phase list is fully resolved: it has
\* all its runs (one per persona, or the one build run) and each of them is
\* completed or failed.  Phases are only appended at the end, so this says that
\* whenever a phase is appended every run of every earlier phase is terminal.
RunStatuses(phase) == {phase.agents[j].status : j \in DOMAIN phase.agents}

C12_EarlierPhasesResolved ==
    \A k \in DOMAIN Phases :
        k < Len(Phases) =>
            /\ RunStatuses(Phases[k]) \subseteq {"completed", "failed"}
            /\ Len(Phases[k].agents) = (IF Phases[k].type \in BuildTypes THEN 1 ELSE NumPersonas)

C12_Witness ==
    /\ Len(Phases) = 3
    /\ pc = "awaitReview"
    /\ RunStatuses(Phases[1]) = {"completed", "failed"}
    /\ RunStatuses(Phases[3]) = {"running"}

\* C13: in a think or review phase, when the run of persona i settles with
\* result o (a success, an unsuccessful result or a thrown exception) while
\* runPipeline awaits the phase, that run gets the status its own result gives,
\* no sibling's run record or closure changes, no runner receives an abort call,
\* and the phase is completed exactly when every run of it has settled.
RunOf(p, i) == p.phases[tasks[i].phase + 1].agents[RunPos(p, tasks[i].phase, tasks[i].id)]

C13_SiblingIsolation ==
    [][\A i \in PersonaIds :
          (/\ pc \in {"awaitThink", "awaitReview"}
           /\ tasks[i].state = "streaming"
           /\ tasks'[i].state # "streaming") =>
              \A o \in Outcomes(Phases[tasks[i].phase + 1].type) :
                  Commit(PersonaBlock(i, o, {})) =>
                      /\ RunOf(pipeline', i).status =
                             (IF IsSuccess(o) THEN "completed" ELSE "failed")
                      /\ \A j \in PersonaIds \ {i} :
                             /\ RunOf(pipeline', j) = RunOf(pipeline, j)
                             /\ tasks'[j] = tasks[j]
                      /\ abortLog' = abortLog
                      /\ pipeline'.phases[tasks[i].phase + 1].status =
                             (IF \A j \in PersonaIds : RunOf(pipeline', j).status # "running"
                              THEN "completed" ELSE "running")]_vars

C13_Witness ==
    /\ Len(Phases) >= 3
    /\ Phases[3].status = "completed"
    /\ \E j \in DOMAIN Phases[3].agents :
           /\ Phases[3].agents[j].status = "failed"
           /\ Phases[3].agents[j].error = Some("stream error")
    /\ \E j \in DOMAIN Phases[3].agents :
           /\ Phases[3].agents[j].status = "completed"
           /\ Phases[3].agents[j].output = Some(PassText)
    /\ RunStatuses(Phases[1]) = {"completed", "failed"}
    /\ cancelPoint = "none"

\* C14: a run is recorded as running; no step removes a run or changes the
\* status of a completed or failed run; a running run only stays running or
\* becomes completed or failed; and once runPipeline has resolved every
\* recorded run is completed or failed.  (It holds while every storage write
\* succeeds; a write that throws lets runPipeline resolve with running runs.)
AllRunsTerminal ==
    \A k \in DOMAIN Phases : RunStatuses(Phases[k]) \subseteq {"completed", "failed"}

C14_RunStatusOnceTerminal ==
    /\ [](Resolved => AllRunsTerminal)
    /\ [][\A k \in DOMAIN pipeline.phases :
              /\ k \in DOMAIN pipeline'.phases
              /\ \A j \in DOMAIN pipeline.phases[k].agents :
                     /\ j \in DOMAIN pipeline'.phases[k].agents
                     /\ LET a == pipeline.phases[k].agents[j]
                            b == pipeline'.phases[k].agents[j]
                        IN /\ b.id = a.id
                           /\ a.status \in {"running", "completed", "failed"}
                           /\ a.status # "running" => b.status = a.status
                           /\ b.status \in {"running", "completed", "failed"}]_vars

C14_Witness ==
    /\ Resolved
    /\ Len(Phases) = 5
    /\ \A k \in DOMAIN Phases : RunStatuses(Phases[k]) = {"completed"}

\* C15: while the stored pipeline is not in a terminal status, its totalTokens
\* and totalCostUsd are the sums of the usage of the completed runs recorded in
\* it, as soon as one of them reports usage.
RECURSIVE SumUsage(_, _)
SumUsage(runs, field) ==
    IF runs = <<>> THEN 0
    ELSE (IF IsSome(Head(runs).tokenUsage) THEN Get(Head(runs).tokenUsage)[field] ELSE 0)
         + SumUsage(Tail(runs), field)

RECURSIVE ReportedUsage(_, _)
ReportedUsage(phases, field) ==
    IF phases = <<>> THEN 0
    ELSE SumUsage(Head(phases).agents, field) + ReportedUsage(Tail(phases), field)

C15_TotalsGrowIncrementally ==
    (stored.status \notin TerminalStatuses /\ ReportedUsage(stored.phases, "totalTokens") > 0) =>
        /\ stored.totalTokens = Some(ReportedUsage(stored.phases, "totalTokens"))
        /\ stored.totalCostUsd = Some(ReportedUsage(stored.phases, "costUsd"))

\* a state of the run in which a completed run's usage is in storage
C15_Witness ==
    /\ pc = "awaitThink"
    /\ stored.status = "thinking"
    /\ ReportedUsage(stored.phases, "totalTokens") = 3
    /\ totalTokens = 3

\* C16: once the signal has fired, no step creates a runner: none is added to
\* the tracked set, no closure starts streaming, and no build run is started
\* (no build prompt is made, runPipeline does not come to await a build).
C16_NoStartAfterAbort ==
    [][signalAborted =>
          /\ activeRunners' \subseteq activeRunners
          /\ buildInputs' = buildInputs
          /\ pc' = "awaitBuild" => pc = "awaitBuild"
          /\ \A i \in PersonaIds :
                 tasks'[i].state = "streaming" =>
                     (tasks[i].state = "streaming" /\ tasks'[i].id = tasks[i].id)]_vars

\* the signal fired during the think phase; the build run was recorded and
\* failed as cancelled without a runner
C16_Witness ==
    /\ cancelPoint = "awaitThink"
    /\ Len(Phases) = 2
    /\ Phases[2].agents[1].error = Some("Pipeline cancelled")
    /\ buildInputs = <<>>
    /\ pc = "done"

\* C17: once the signal has fired, no step appends a phase to the phase list
\* or emits a phase_started event.
PhaseStartedEvents == {k \in DOMAIN events : events[k].type = "phase_started"}

C17_NoPhaseAfterAbort ==
    [][signalAborted =>
          /\ Len(pipeline'.phases) = Len(pipeline.phases)
          /\ \A k \in DOMAIN events' :
                 events'[k].type = "phase_started" => k \in DOMAIN events]_vars

\* a run in which the signal fired during the think phase and a build phase came after it
C17_Witness ==
    /\ cancelPoint = "awaitThink"
    /\ pc = "done"
    /\ Len(Phases) = 2
    /\ Cardinality(PhaseStartedEvents) = 2

\* C18: while runPipeline awaits and the signal has not fired, every run in
\* flight has its runner in the tracked set; the step in which the signal fires
\* then calls abort exactly once on each tracked runner, on no other, and
\* empties the set; and after the signal has fired no step (a second firing
\* included) makes an abort call or adds a runner.
InFlight ==
    IF pc = "awaitBuild" THEN {buildRun.id}
    ELSE IF pc \in {"awaitThink", "awaitReview"}
    THEN {tasks[i].id : i \in {j \in PersonaIds : tasks[j].state = "streaming"}}
    ELSE {}

AbortCalls(log, r) == Cardinality({k \in DOMAIN log : log[k] = r})

C18_AbortAllOnce ==
    /\ [](~signalAborted => InFlight \subseteq activeRunners)
    /\ [][(~signalAborted /\ signalAborted' /\ Awaiting) =>
              /\ activeRunners' = {}
              /\ Len(abortLog') = Len(abortLog) + Cardinality(activeRunners)
              /\ \A r \in activeRunners :
                     AbortCalls(abortLog', r) = AbortCalls(abortLog, r) + 1]_vars
    /\ [][signalAborted =>
              (abortLog' = abortLog /\ activeRunners' \subseteq activeRunners)]_vars

C18_Witness ==
    /\ signalAborted
    /\ cancelPoint = "awaitReview"
    /\ pc = "awaitReview"
    /\ Len(abortLog) = 2
    /\ activeRunners = {}
    /\ InFlight # {}

\* C19: in one call of runAgentWithStreaming, (a) a watchdog tick that finds the
\* stream silent for the hard timeout or longer leaves the run aborted, with
\* exactly one abort call in all, so that an open stream is never silent for
\* the timeout plus one watchdog period without having been aborted; (b) when
\* the stream ends without a complete event the call returns a failure whose
\* message is the unresponsive one if the watchdog aborted the run and the
\* no-completion one otherwise, two different messages.
Silence == now - lastEventTime

C19_WatchdogAbort ==
    /\ [](/\ (stream = "open" /\ Silence >= ABORT_TIMEOUT_MS + WATCHDOG_MS) => aborted
          /\ aborted <=> watchdogAborts = 1
          /\ watchdogAborts <= 1
          /\ UnresponsiveMsg # NoCompletionMsg)
    /\ [][(now = nextTick /\ nextTick' # nextTick /\ Silence >= ABORT_TIMEOUT_MS) =>
              (aborted' /\ watchdogAborts' = 1)]_vars
    /\ [][(~aborted /\ aborted') =>
              (now = nextTick /\ nextTick' # nextTick /\ Silence >= ABORT_TIMEOUT_MS)]_vars
    /\ [][(stream = "open" /\ stream' = "returned" /\ delivered' = delivered) =>
              /\ result' # None
              /\ ~Get(result').success
              /\ Get(result').error =
                     Some(IF aborted THEN UnresponsiveMsg ELSE NoCompletionMsg)]_vars

\* one event, then silence: the watchdog aborted and the stream ended
C19_Witness ==
    /\ stream = "returned"
    /\ delivered = 1
    /\ lastEventTime = StartTime + ClockStepMs
    /\ watchdogAborts = 1
    /\ result = Some(ResultFail(Some(UnresponsiveMsg)))

\* C20: the text of every agent_progress event is at most MAX_LOG_LENGTH
\* characters long.
C20_ProgressTextCapped ==
    IsSome(lastProgress) => Length(Get(lastProgress).text) <= MAX_LOG_LENGTH

\* a progress event whose text was trimmed to the cap
C20_Witness ==
    /\ IsSome(lastProgress)
    /\ Length(Get(lastProgress).text) = MAX_LOG_LENGTH
    /\ delivered = 2

\* C21: whenever a text_delta or tool_start event makes the log exceed
\* MAX_LOG_LENGTH, the log trimLog leaves is a suffix of the untrimmed log and
\* begins with a blank-line separator (two line feeds) of it.
IsSuffix(after, before) ==
    /\ Length(after) <= Length(before)
    /\ Slice(before, Length(before) - Length(after)) = after

BeginsAtBreak(t) == t # <<>> /\ t[1].nl /\ t[1].n >= 2

C21_TrimAtParagraphBoundary ==
    [][\A e \in StreamEvents :
          ( /\ e.type \in {"text_delta", "tool_start"}
            /\ stream = "open"
            /\ delivered' = delivered + 1
            /\ CommitStream(OnEvent(StreamState, e))
            /\ Length(AppendEvent(StreamState, e).streamingLog) > MAX_LOG_LENGTH )
          => /\ IsSuffix(streamingLog', AppendEvent(StreamState, e).streamingLog)
             /\ BeginsAtBreak(streamingLog')]_vars

\* two deltas of 3002 characters: the log was cut at the second blank line
C21_Witness ==
    /\ delivered = 2
    /\ streamingLog = Concat(LineFeeds(2), Chars(1000))
    /\ hasContent

\* C22: a step in which a storage write throws while runPipeline has not yet
\* resolved does not resolve it: the promise is not resolved by that step, with
\* a pipeline marked failed or cancelled or otherwise.
C22_StorageThrowRejects ==
    [][(faultsLeft' < faultsLeft /\ promise # "resolved") => promise' # "resolved"]_vars

\* one write threw during the review phase and runPipeline resolved
C22_Witness ==
    /\ Resolved
    /\ faultsLeft = MaxFaults - 1
    /\ Len(Phases) = 3
    /\ pipeline.status = "failed"
    /\ events[Len(events)].type = "pipeline_error"
    /\ events[Len(events)].info = <<"storage write failed">>

\* C23: every two consecutive values of pipeline.status are one of the
\* transitions pending -> thinking -> building -> reviewing -> iterating ->
\* building, or lead from a status that is not terminal to completed, failed or
\* cancelled; synthesizing is never entered.  As amended, the transition out of
\* iterating is iterating -> reviewing: the loop is
\* (iterating -> reviewing)*.
ForwardSteps ==
    {<<"pending", "thinking">>, <<"thinking", "building">>, <<"building", "reviewing">>,
     <<"reviewing", "iterating">>}

EndingSteps ==
    {"pending", "thinking", "building", "reviewing", "iterating"} \X TerminalStatuses

StatusSteps == {<<statusLog[k], statusLog[k + 1]>> : k \in 1..(Len(statusLog) - 1)}

C23_StatusTransitionsAsClaimed ==
    /\ statusLog[Len(statusLog)] = pipeline.status
    /\ StatusSteps \subseteq (ForwardSteps \cup {<<"iterating", "building">>} \cup EndingSteps)

C23_StatusTransitions ==
    /\ statusLog[Len(statusLog)] = pipeline.status
    /\ StatusSteps \subseteq (ForwardSteps \cup {<<"iterating", "reviewing">>} \cup EndingSteps)

\* a run with one fix cycle that ended completed
C23_Witness ==
    /\ Resolved
    /\ statusLog = <<"pending", "thinking", "building", "reviewing", "iterating",
                     "reviewing", "completed">>

\* C24: once the review phase of iteration i is completed, a further build
\* phase follows it if and only if i < maxIterations and a completed run of the
\* phase has an output that mentions MAJOR_ISSUES in any case; and the build
\* prompt of that further build is made from the outputs of exactly the
\* completed runs of that review phase, in run order.
IterationOf(k) == Cardinality({j \in ReviewPhases : j <= k}) - 1

CompletedRuns(phase) == SelectSeq(phase.agents, LAMBDA r : r.status = "completed")

OutputsOfCompleted(phase) ==
    [j \in 1..Len(CompletedRuns(phase)) |->
        [personaId |-> CompletedRuns(phase)[j].personaId,
         output |-> Get(CompletedRuns(phase)[j].output)]]

C24_IterateOnMajorIssues ==
    \A k \in ReviewPhases :
        Phases[k].status = "completed" =>
            /\ (k < Len(Phases)) <=>
                   (IterationOf(k) < pipeline.maxIterations /\ ReviewHasMajor(k))
            /\ k < Len(Phases) => Phases[k + 1].type = "iterate"
            /\ Len(buildInputs) >= IterationOf(k) + 2 =>
                   buildInputs[IterationOf(k) + 2] = OutputsOfCompleted(Phases[k])

\* a fix cycle was started on the one completed review, the other review having
\* failed with a text that mentions MAJOR_ISSUES too
C24_Witness ==
    /\ Len(Phases) >= 4
    /\ Len(buildInputs) = 2
    /\ Len(buildInputs[2]) = 1
    /\ buildInputs[2][1].output = MajorText
    /\ RunStatuses(Phases[3]) = {"completed", "failed"}

\* C25: when a phase or agent event is emitted, storage already holds what it
\* reports: at phase_started the phase, at agent_started the run as running, at
\* agent_completed and agent_failed the run as completed and as failed, at
\* phase_completed the phase as completed.
StoredAsReported(e) ==
    CASE e.type = "phase_started" -> e.stored # "absent"
      [] e.type = "agent_started" -> e.stored = "running"
      [] e.type = "agent_completed" -> e.stored = "completed"
      [] e.type = "agent_failed" -> e.stored = "failed"
      [] e.type = "phase_completed" -> e.stored = "completed"
      [] OTHER -> TRUE

C25_StorageBeforeEvent == \A k \in DOMAIN events : StoredAsReported(events[k])

\* the think phase is over: its events were emitted, one per run and for the phase
C25_Witness ==
    /\ \E k \in DOMAIN events : events[k].type = "agent_completed" /\ events[k].phaseIndex = 0
    /\ \E k \in DOMAIN events : events[k].type = "agent_failed" /\ events[k].phaseIndex = 0
    /\ \E k \in DOMAIN events :
           /\ events[k].type = "phase_completed"
           /\ events[k].phaseIndex = 0
           /\ events[k].stored = "completed"

\* C26: every recorded run, of whatever phase, has exactly one agent_started
\* event; a run that is completed or failed has, after it, exactly one outcome
\* event with its id, agent_completed or agent_failed as its status says; a run
\* still running has none.
EventsOf(runId, types) ==
    {k \in DOMAIN events : events[k].type \in types /\ events[k].agentRunId = runId}

OutcomeEventFor(status) ==
    IF status = "completed" THEN "agent_completed" ELSE "agent_failed"

RunEventsMatch(r) ==
    LET started == EventsOf(r.id, {"agent_started"})
        outcome == EventsOf(r.id, {"agent_completed", "agent_failed"})
    IN /\ Cardinality(started) = 1
       /\ IF r.status = "running" THEN outcome = {}
          ELSE /\ Cardinality(outcome) = 1
               /\ \A k \in outcome :
                      /\ events[k].type = OutcomeEventFor(r.status)
                      /\ \A j \in started : j < k

C26_OneStartOneOutcomeEvent ==
    \A k \in DOMAIN Phases :
        \A j \in DOMAIN Phases[k].agents : RunEventsMatch(Phases[k].agents[j])

\* a run through all three kinds of phase, with runs of both outcomes
C26_Witness ==
    /\ Resolved
    /\ Len(Phases) = 3
    /\ RunStatuses(Phases[1]) = {"completed", "failed"}
    /\ RunStatuses(Phases[2]) = {"completed"}
    /\ RunStatuses(Phases[3]) = {"completed", "failed"}
    /\ \A k \in DOMAIN Phases :
           \A j \in DOMAIN Phases[k].agents : RunEventsMatch(Phases[k].agents[j])

\* C27: once the signal has fired no runner is created any more, so a run that
\* comes up after it is a run that is never started: no step taken after the
\* signal has fired adds a run record to a phase or emits an agent_started
\* event.
RECURSIVE RunCount(_)
RunCount(phases) ==
    IF phases = <<>> THEN 0 ELSE Len(Head(phases).agents) + RunCount(Tail(phases))

AgentStartedCount(evs) == Cardinality({k \in DOMAIN evs : evs[k].type = "agent_started"})

C27_UnstartedRunsNotRecorded ==
    [][signalAborted =>
          /\ RunCount(pipeline'.phases) = RunCount(pipeline.phases)
          /\ AgentStartedCount(events') = AgentStartedCount(events)]_vars

\* the signal fired during the first build; both reviews were recorded, announced
\* and failed as cancelled without a runner
C27_Witness ==
    /\ cancelPoint = "awaitBuild"
    /\ Len(Phases) = 3
    /\ Len(Phases[3].agents) = NumPersonas
    /\ \A j \in DOMAIN Phases[3].agents :
           /\ Phases[3].agents[j].status = "failed"
           /\ Phases[3].agents[j].error = Some("Pipeline cancelled")
           /\ EventsOf(Phases[3].agents[j].id, {"agent_started"}) # {}

\* C28: a pipeline is cancelled, or a pipeline_cancelled event emitted, only
\* after the signal has fired; and a run that ends in the step in which a
\* storage write throws ends failed with a pipeline_error event, never
\* cancelled.
CancelledEvents == {k \in DOMAIN events : events[k].type = "pipeline_cancelled"}

C28_CancelledOnlyBySignal ==
    /\ []((pipeline.status = "cancelled" \/ CancelledEvents # {}) => signalAborted)
    /\ [][(faultsLeft' < faultsLeft /\ promise # "resolved" /\ promise' = "resolved") =>
              /\ pipeline'.status = "failed"
              /\ events'[Len(events')].type = "pipeline_error"]_vars

\* the signal fired during the think phase, then a write threw: reported cancelled
C28_Witness ==
    /\ Resolved
    /\ cancelPoint = "awaitThink"
    /\ faultsLeft = MaxFaults - 1
    /\ pipeline.status = "cancelled"
    /\ events[Len(events)].type = "pipeline_cancelled"

\* C29: in a think or review phase every persona has exactly one run record,
\* under its own id, in memory and in storage alike; and when the run of persona
\* i settles with result o, in whatever order the runs settle, its record takes
\* the status, the output and the usage of o, every sibling's record stays as it
\* was, and storage holds the same run list as memory.
ParallelPhases == {k \in DOMAIN Phases : Phases[k].type \in {"think", "review"}}

RecordedUsage(o) ==
    IF IsSuccess(o) /\ IsSome(o.usage)
    THEN Some([inputTokens |-> Get(o.usage).inputTokens,
               outputTokens |-> Get(o.usage).outputTokens,
               totalTokens |-> Get(o.usage).inputTokens + Get(o.usage).outputTokens,
               costUsd |-> Get(o.usage).costUsd])
    ELSE None

OneRecordPerPersona(phase) ==
    /\ Len(phase.agents) = NumPersonas
    /\ \A i \in PersonaIds :
           Cardinality({j \in DOMAIN phase.agents : phase.agents[j].personaId = i}) = 1
    /\ \A a, b \in DOMAIN phase.agents : phase.agents[a].id = phase.agents[b].id => a = b

C29_NoLostUpdate ==
    /\ [](\A k \in ParallelPhases :
              /\ OneRecordPerPersona(Phases[k])
              /\ k \in DOMAIN stored.phases
              /\ stored.phases[k].agents = Phases[k].agents)
    /\ [][\A i \in PersonaIds :
              (/\ pc \in {"awaitThink", "awaitReview"}
               /\ tasks[i].state = "streaming"
               /\ tasks'[i].state # "streaming") =>
                  \A o \in Outcomes(Phases[tasks[i].phase + 1].type) :
                      Commit(PersonaBlock(i, o, {})) =>
                          /\ RunOf(pipeline', i).personaId = i
                          /\ RunOf(pipeline', i).status =
                                 (IF IsSuccess(o) THEN "completed" ELSE "failed")
                          /\ RunOf(pipeline', i).output =
                                 (IF IsSuccess(o) THEN Some(o.response) ELSE None)
                          /\ RunOf(pipeline', i).tokenUsage = RecordedUsage(o)
                          /\ \A j \in PersonaIds \ {i} :
                                 RunOf(pipeline', j) = RunOf(pipeline, j)
                          /\ stored'.phases[tasks[i].phase + 1].agents =
                                 pipeline'.phases[tasks[i].phase + 1].agents]_vars

\* both reviews completed, the second persona's first, each with its own
\* output and usage
C29_Witness ==
    /\ Len(Phases) >= 3
    /\ Phases[3].status = "completed"
    /\ Phases[3].agents[1].output = Some(MajorText)
    /\ Phases[3].agents[1].tokenUsage = None
    /\ Phases[3].agents[2].output = Some(PassText)
    /\ Phases[3].agents[2].tokenUsage # None
    /\ \E a, b \in DOMAIN events :
           /\ a < b
           /\ events[a].type = "agent_completed"
           /\ events[a].agentRunId = Phases[3].agents[2].id
           /\ events[b].type = "agent_completed"
           /\ events[b].agentRunId = Phases[3].agents[1].id
    /\ stored.phases[3].agents = Phases[3].agents

Emitted == progressCount' - progressCount

C31_ThrottleAndForce ==
    /\ [][delivered' # delivered =>
              CASE eventType' = "text_delta" ->
                     /\ Emitted \in {0, 1}
                     /\ Emitted = 1 => now - lastEmitTime >= THROTTLE_MS
                [] eventType' \in {"tool_start", "error"} -> Emitted = 1
                [] eventType' = "complete" ->
                     Emitted = (IF streamingLog # EmptyLog \/ toolCallCount > 0 THEN 1 ELSE 0)
                [] OTHER -> TRUE]_vars
    /\ [][nextTick' # nextTick => Emitted = 1]_vars
    /\ [][Emitted # 0 =>
              /\ lastEmitTime' = now
              /\ lastProgress' = Some([text |-> streamingLog', activeTool |-> activeTool',
                                       toolCallCount |-> toolCallCount'])]_vars
    /\ [][lastEmitTime' # lastEmitTime => Emitted # 0]_vars

\* the snapshot of a delta that came FineStepMs after the first one's was held back
C31_Witness ==
    /\ delivered = 2
    /\ progressCount = 1
    /\ lastEmitTime = StartTime
    /\ now = StartTime + FineStepMs
    /\ eventType = "text_delta"
    /\ Length(streamingLog) > Length(Get(lastProgress).text)

\* the texts one event or one watchdog tick can append to the log (320, 349-384)
AppendedTexts == TextDeltas \cup {ToolText(Chars(12)), ErrorText(Chars(5)), UnresponsiveText}

Trimmed(t) == TrimLog([StreamState EXCEPT !.streamingLog = t]).streamingLog

\* C32: once content has arrived, a step changes the streaming log only by
\* appending a text at its end, followed at most by trimming its front; no
\* event and no watchdog tick replaces or discards the log
C32_LogAppendOnly ==
    [][hasContent =>
          \/ streamingLog' = streamingLog
          \/ \E x \in AppendedTexts :
                 streamingLog' \in {Concat(streamingLog, x), Trimmed(Concat(streamingLog, x))}]_vars

\* a status event arrived after content and the log is its message alone
C32_Witness ==
    /\ hasContent
    /\ delivered = 2
    /\ eventType = "status"
    /\ streamingLog = StatusText(Chars(12))

RECURSIVE CompletedUsage(_, _)
\* the usage of the completed runs of all phases, each run counted once
CompletedUsage(phases, field) ==
    IF phases = <<>> THEN 0
    ELSE SumUsage(CompletedRuns(Head(phases)), field) + CompletedUsage(Tail(phases), field)

\* C33: a pipeline that reached `completed` carries, in memory and in storage,
\* totals equal to the summed usage of the runs that completed and reported
\* usage; failed runs and runs without usage add nothing, no run counts twice
C33_TotalsAtCompletion ==
    pipeline.status = "completed" =>
        /\ pipeline.totalTokens = Some(CompletedUsage(Phases, "totalTokens"))
        /\ pipeline.totalCostUsd = Some(CompletedUsage(Phases, "costUsd"))
        /\ stored.totalTokens = pipeline.totalTokens
        /\ stored.totalCostUsd = pipeline.totalCostUsd
        /\ \A k \in DOMAIN Phases : \A j \in DOMAIN Phases[k].agents :
               Phases[k].agents[j].status # "completed" => Phases[k].agents[j].tokenUsage = None

\* completed after an iteration, with a failed review, a review without usage
\* and reviews, builds and briefs with usage
C33_Witness ==
    /\ pipeline.status = "completed"
    /\ BuildCount = 2
    /\ \E k \in ReviewPhases :
           /\ "failed" \in RunStatuses(Phases[k])
           /\ \E j \in DOMAIN Phases[k].agents :
                  Phases[k].agents[j].status = "completed" /\ Phases[k].agents[j].tokenUsage = None
    /\ Get(pipeline.totalTokens) >= 9

\* C34: a think or review phase whose runs were started holds exactly one run
\* per persona of the list, in list order; a build or iterate phase that has a
\* run holds exactly one, the manager's
C34_OneRunPerRole ==
    \A k \in DOMAIN Phases :
        Phases[k].agents # <<>> =>
            IF Phases[k].type \in BuildTypes
            THEN /\ Len(Phases[k].agents) = 1
                 /\ Phases[k].agents[1].personaId = ManagerId
            ELSE /\ Len(Phases[k].agents) = NumPersonas
                 /\ \A j \in DOMAIN Phases[k].agents : Phases[k].agents[j].personaId = j

\* think, build, review, iterate and a second review, each with its runs
C34_Witness ==
    /\ Len(Phases) = 5
    /\ Phases[4].type = "iterate"
    /\ \A k \in DOMAIN Phases : Phases[k].agents # <<>>
    /\ "running" \in RunStatuses(Phases[5])

\* the ids of the runs (and of their runners) that are still `running`
RunningIds ==
    UNION {{Phases[k].agents[j].id : j \in {n \in DOMAIN Phases[k].agents :
                                                Phases[k].agents[n].status = "running"}} :
           k \in DOMAIN Phases}

\* C35: the tracked runners are exactly the runners of the runs that are still
\* running (until the signal fires and empties the set), whichever way a run
\* ended, and no abort call is ever made on the runner of a finished run
C35_TrackedRunnersAreRunning ==
    /\ [](activeRunners \subseteq RunningIds)
    /\ [](~signalAborted => RunningIds \subseteq activeRunners)
    /\ [][\A r \in activeRunners :
              AbortCalls(abortLog', r) > AbortCalls(abortLog, r) => r \in RunningIds]_vars

\* a brief's stream threw: its run is failed and its runner is still tracked
C35_Witness ==
    /\ ~signalAborted
    /\ pc = "awaitThink"
    /\ \E j \in DOMAIN Phases[1].agents :
           /\ Phases[1].agents[j].status = "failed"
           /\ Phases[1].agents[j].error = Some("stream error")
           /\ Phases[1].agents[j].id \in activeRunners

IteratePhases == {k \in DOMAIN Phases : Phases[k].type = "iterate"}

AgentEventTypes == {"agent_started", "agent_completed", "agent_failed"}
PhaseEventTypes == {"phase_started", "phase_completed"}

AgentEventsAt(phaseIndex) ==
    {k \in DOMAIN events : events[k].type \in AgentEventTypes /\ events[k].phaseIndex = phaseIndex}

\* the place of an event in the order of a run with n phases: pipeline_started,
\* then phase by phase its phase_started, its agent events and its
\* phase_completed, then the terminal event
EventRank(e, n) ==
    CASE e.type = "pipeline_started" -> 0 - 1
      [] e.type = "phase_started" -> 3 * e.phaseIndex
      [] e.type \in AgentEventTypes -> 3 * e.phaseIndex + 1
      [] e.type = "phase_completed" -> 3 * e.phaseIndex + 2
      [] OTHER -> 3 * n

\* the positions of the events a step emits
NewEvents == (Len(events) + 1)..Len(events')

NewEventsOf(type) == {k \in NewEvents : events'[k].type = type}

\* the phases whose status a step turns to `completed`
NewlyCompleted ==
    {p \in DOMAIN pipeline'.phases :
        /\ pipeline'.phases[p].status = "completed"
        /\ p \in DOMAIN Phases => Phases[p].status # "completed"}

\* C37: pipeline_started is the first event; each phase of the list has one
\* phase_started, before all agent events of the phase; it has a phase_completed
\* exactly if its status is completed, after the outcome events of all its runs
\* and before any later phase's phase_started; and every phase or agent event
\* carries the 0-based position of its phase in pipeline.phases.  Stated per
\* step: every event a step emits keeps the list in rank order (strictly, for
\* a phase event), points at its phase, and a phase_completed finds an outcome
\* event of every run of its phase before it; the step emits phase_started for
\* exactly the phases it appends and phase_completed for exactly the phases
\* whose status it turns to completed
C37_EventOrder ==
    [][/\ \A k \in NewEvents :
              LET e == events'[k]
                  n == Len(pipeline'.phases)
              IN /\ k = 1 => e.type = "pipeline_started"
                 /\ k > 1 =>
                        /\ EventRank(events'[k - 1], n) <= EventRank(e, n)
                        /\ e.type \in PhaseEventTypes =>
                               EventRank(events'[k - 1], n) < EventRank(e, n)
                 /\ e.type \in PhaseEventTypes =>
                        /\ e.phaseIndex + 1 \in DOMAIN pipeline'.phases
                        /\ e.phaseType = pipeline'.phases[e.phaseIndex + 1].type
                 /\ e.type \in AgentEventTypes =>
                        /\ e.phaseIndex + 1 \in DOMAIN pipeline'.phases
                        /\ \E j \in DOMAIN pipeline'.phases[e.phaseIndex + 1].agents :
                               pipeline'.phases[e.phaseIndex + 1].agents[j].id = e.agentRunId
                 /\ e.type = "phase_completed" =>
                        \A j \in DOMAIN pipeline'.phases[e.phaseIndex + 1].agents :
                            \E m \in 1..(k - 1) :
                                /\ events'[m].type \in {"agent_completed", "agent_failed"}
                                /\ events'[m].agentRunId =
                                       pipeline'.phases[e.phaseIndex + 1].agents[j].id
       /\ {events'[k].phaseIndex + 1 : k \in NewEventsOf("phase_started")} =
              (Len(Phases) + 1)..Len(pipeline'.phases)
       /\ {events'[k].phaseIndex + 1 : k \in NewEventsOf("phase_completed")} = NewlyCompleted]_vars

\* a fix cycle was run: five phases, four phase_completed events, the second
\* review running with one outcome event so far
C37_Witness ==
    /\ Len(Phases) = 5
    /\ Cardinality({k \in DOMAIN events : events[k].type = "phase_completed"}) = 4
    /\ Cardinality(AgentEventsAt(4)) = 3
    /\ Phases[5].status = "running"

\* the calls of the streaming helper in progress lie between the run's
\* agent_started and its outcome event, and before the pipeline's terminal event
OpenCalls ==
    {tasks[i].id : i \in {j \in PersonaIds : tasks[j].state = "streaming"}}
        \cup (IF pc = "awaitBuild" THEN {buildRun.id} ELSE {})

CallsWithinRunEvents ==
    \A r \in OpenCalls :
        /\ EventsOf(r, {"agent_started"}) # {}
        /\ EventsOf(r, {"agent_completed", "agent_failed"}) = {}
        /\ \A k \in DOMAIN events : events[k].type \notin TerminalEventTypes

RECURSIVE FoldEvents(_, _)
\* the events applied in emission order
FoldEvents(p, es) ==
    IF es = <<>> THEN p ELSE FoldEvents(ApplyPipelineEvent(p, Head(es)), Tail(es))

\* status, phases (id, type, status) and runs (id, status) of a pipeline
Outline(p) ==
    [status |-> p.status,
     phases |-> [k \in DOMAIN p.phases |->
                    [id |-> p.phases[k].id, type |-> p.phases[k].type,
                     status |-> p.phases[k].status,
                     agents |-> [j \in DOMAIN p.phases[k].agents |->
                                    [id |-> p.phases[k].agents[j].id,
                                     status |-> p.phases[k].agents[j].status]]]]]

TerminalEventEmitted == events # <<>> /\ events[Len(events)].type \in TerminalEventTypes

\* C39: once the terminal event has been emitted, the events of the run folded
\* through applyPipelineEvent from the freshly created pipeline give the
\* status, the phases and every phase and run status of the stored pipeline
C39_FoldMatchesStored ==
    TerminalEventEmitted =>
        Outline(FoldEvents([status |-> "pending", phases |-> <<>>], events)) = Outline(stored)

\* the first build returned a failure result: the run ended with pipeline_error
C39_Witness ==
    /\ TerminalEventEmitted
    /\ Len(Phases) = 2
    /\ stored.status = "failed"
    /\ stored.phases[2].status = "failed"
    /\ stored.phases[2].agents[1].status = "failed"
    /\ events[Len(events)].type = "pipeline_error"

\* C40: whatever maxIterations is, a pipeline that ends completed holds at
\* least one build-type phase whose run completed and at least one review phase
C40_CompletedHasBuildAndReview ==
    pipeline.status = "completed" =>
        /\ \E k \in BuildPhases : "completed" \in RunStatuses(Phases[k])
        /\ ReviewPhases # {}

\* maxIterations is negative: completed with the think phase alone
C40_Witness ==
    /\ pipeline.maxIterations < 0
    /\ Resolved
    /\ pipeline.status = "completed"
    /\ stored.status = "completed"
    /\ Len(Phases) = 1
    /\ events[Len(events)].type = "pipeline_completed"

====
